---- MODULE Spec2Model ----
(***************************************************************************)
(* The simulation core of manhole.py: the module-level game variables, the *)
(* KEYDOWN handlers of the event loop, reset_game and the per-frame game   *)
(* logic (spawn, move, collide, score or fall, off-screen cleanup,         *)
(* removal, game-over check).  Drawing, fonts and frame pacing are left    *)
(* out: they read the state and never write it.                            *)
(*                                                                         *)
(* One step of the model is one key event handled by the event loop, or    *)
(* the game logic of one frame (Tick).  A frame of the program is any      *)
(* number of key events followed by one Tick.                              *)
(*                                                                         *)
(* The specifications run the same actions and differ in the sessions     *)
(* they explore.  Spec explores the game with the delays of DelayChoices.  *)
(* SpecKeys also records in "last" which input the last step handled and   *)
(* in which state it was received, and draws the delays from KeysDelays.   *)
(* SpecPaced spawns the pedestrians of a session a column distance apart.  *)
(* SpecMoves records the key by name.  SpecIdle (no direction key) and     *)
(* SpecFair (every key) add the fairness of the frame.                     *)
(***************************************************************************)
EXTENDS Integers, Sequences, FiniteSets

(* ---- layout and pedestrian constants (lines 14-51) ---- *)
SCREEN_WIDTH == 800
MANHOLE_COLLISION_WIDTH == 50
PEDESTRIAN_WIDTH == 20
PEDESTRIAN_SPAWN_RATE_MIN == 200
PEDESTRIAN_SPAWN_RATE_MAX == 400
INITIAL_LIVES == 3
OFFSCREEN_BONUS == 5

\* PEDESTRIAN_SPEED = 1.5, kept in half pixels so that it stays an integer.
PEDESTRIAN_SPEED_X2 == 3

\* MANHOLE_CENTERS_X = [SCREEN_WIDTH * 0.30, SCREEN_WIDTH * 0.70] = [240.0, 560.0]
\* (both products are exact in binary floating point).  Python's column index
\* c is position c + 1 of the sequence.
MANHOLE_CENTERS_X == << (SCREEN_WIDTH * 3) \div 10, (SCREEN_WIDTH * 7) \div 10 >>

\* len(MANHOLE_CENTERS_X) and len(PATH_CENTERS_Y)
NumCols == Len(MANHOLE_CENTERS_X)
NumRows == 2
Rows == 0 .. (NumRows - 1)
Cols == 0 .. (NumCols - 1)

(* ---- bounds of the model ---- *)
\* A session (from a reset to the next) spawns at most MaxSpawns pedestrians:
\* the frame whose spawn would exceed it is not taken.
MaxSpawns == 3

\* The values random.randint(MIN, MAX) is let to return: the two ends of the
\* range and the distance between the two manhole columns.
DelayChoices ==
    { d \in { PEDESTRIAN_SPAWN_RATE_MIN,
              MANHOLE_CENTERS_X[2] - MANHOLE_CENTERS_X[1],
              PEDESTRIAN_SPAWN_RATE_MAX } :
        PEDESTRIAN_SPAWN_RATE_MIN <= d /\ d <= PEDESTRIAN_SPAWN_RATE_MAX }

\* Under SpecKeys a session spawns at most KeysMaxSpawns pedestrians (one
\* more than there are lives, so that a game can end with a pedestrian still
\* walking); the delay drawn at a spawn is one of KeysDelays, the delay
\* drawn by reset_game any of DelayChoices.
KeysMaxSpawns == 4
\* The spawns of a session of SpecPaced.
PacedMaxSpawns == 4
\* The spawns of a session of SpecMoves.
MovesMaxSpawns == 3
\* The spawns of a session of SpecIdle.
IdleMaxSpawns == 5
\* The spawns of a session of SpecFair.
FairMaxSpawns == 3
KeysDelays == { PEDESTRIAN_SPAWN_RATE_MIN }

VARIABLES
    score,              \* global score
    lives,              \* global lives
    player_row_index,   \* 0 top row, 1 bottom row
    player_col_index,   \* 0 left manhole, 1 right manhole
    pedestrians,        \* list of records [x, row, scored_at_indices, id]
    game_over,          \* BOOLEAN
    spawn_timer,
    next_spawn_delay,
    spawned,            \* history: pedestrians created since the last reset
    falls,              \* history: falls (fell_in_hole = True) since the last reset
    exits,              \* history: off-screen removals since the last reset
    credits,            \* history: slots added to credited sets since the last reset
    last                \* history: [key, over]: the input the last step handled
                        \*   and the value of game_over when it was received

vars == << score, lives, player_row_index, player_col_index, pedestrians,
           game_over, spawn_timer, next_spawn_delay, spawned, falls, exits,
           credits, last >>

\* The game variables proper and the histories the game logic feeds.
game == << score, lives, player_row_index, player_col_index, pedestrians,
           game_over, spawn_timer, next_spawn_delay, spawned, falls, exits,
           credits >>

(* ---- pygame.Rect ---- *)
\* A Rect stores integers: assigning a float to rect.x converts it with a C
\* cast, i.e. truncation toward zero.  h is the new value in half pixels.
TruncHalf(h) == IF h >= 0 THEN h \div 2 ELSE -((-h) \div 2)

\* ped_rect.x += PEDESTRIAN_SPEED
\* Variant: a speed of half a pixel per frame, which the truncation of the
\* Rect swallows from x = 0 on.
MoveXHalfPixel(x) == TruncHalf(2 * x + 1)

MoveX(x) == TruncHalf(2 * x + PEDESTRIAN_SPEED_X2)

\* ped_rect.centerx and ped_rect.left of a Rect of width PEDESTRIAN_WIDTH
CenterX(x) == x + PEDESTRIAN_WIDTH \div 2
Left(x) == x

(* ---- create_pedestrian ---- *)
create_pedestrian(ped_row, id) ==
    [ x |-> 0 - PEDESTRIAN_WIDTH, row |-> ped_row,
      scored_at_indices |-> {}, id |-> id ]

(* ---- reset_game ---- *)
\* Variant: the player stays on the slot it was on.
reset_game_keeps_player(delay) ==
    /\ score' = 0
    /\ lives' = INITIAL_LIVES
    /\ UNCHANGED << player_row_index, player_col_index >>
    /\ pedestrians' = << >>
    /\ game_over' = FALSE
    /\ spawn_timer' = 0
    /\ next_spawn_delay' = delay
    /\ spawned' = 0
    /\ falls' = 0
    /\ exits' = 0
    /\ credits' = 0

reset_game(delay) ==
    /\ score' = 0
    /\ lives' = INITIAL_LIVES
    /\ player_row_index' = 0
    /\ player_col_index' = 0
    /\ pedestrians' = << >>
    /\ game_over' = FALSE
    /\ spawn_timer' = 0
    /\ next_spawn_delay' = delay
    /\ spawned' = 0
    /\ falls' = 0
    /\ exits' = 0
    /\ credits' = 0

Init ==
    /\ score = 0
    /\ lives = INITIAL_LIVES
    /\ player_row_index = 0
    /\ player_col_index = 0
    /\ pedestrians = << >>
    /\ game_over = FALSE
    /\ spawn_timer = 0
    /\ next_spawn_delay \in DelayChoices
    /\ spawned = 0
    /\ falls = 0
    /\ exits = 0
    /\ credits = 0
    /\ last = [ key |-> "none", over |-> FALSE ]

(* ---- event handling: KEYDOWN (lines 142-164) ---- *)
\* Left/a, Right/d, Up/w, Down/s: handled only if not game_over.
\* Variant: the column index is decremented without the modulo.
MoveLeftNoWrap ==
    /\ IF ~game_over
         THEN player_col_index' = player_col_index - 1
         ELSE UNCHANGED player_col_index
    /\ UNCHANGED << score, lives, player_row_index, pedestrians, game_over,
                    spawn_timer, next_spawn_delay, spawned, falls, exits,
                    credits >>

MoveLeft ==
    /\ IF ~game_over
         THEN player_col_index' = (player_col_index - 1) % NumCols
         ELSE UNCHANGED player_col_index
    /\ UNCHANGED << score, lives, player_row_index, pedestrians, game_over,
                    spawn_timer, next_spawn_delay, spawned, falls, exits,
                    credits >>

MoveRight ==
    /\ IF ~game_over
         THEN player_col_index' = (player_col_index + 1) % NumCols
         ELSE UNCHANGED player_col_index
    /\ UNCHANGED << score, lives, player_row_index, pedestrians, game_over,
                    spawn_timer, next_spawn_delay, spawned, falls, exits,
                    credits >>

MoveUp ==
    /\ IF ~game_over
         THEN player_row_index' = (player_row_index - 1) % NumRows
         ELSE UNCHANGED player_row_index
    /\ UNCHANGED << score, lives, player_col_index, pedestrians, game_over,
                    spawn_timer, next_spawn_delay, spawned, falls, exits,
                    credits >>

\* Variant: the key also steps the column index.
MoveDownBothAxes ==
    /\ IF ~game_over
         THEN /\ player_row_index' = (player_row_index + 1) % NumRows
              /\ player_col_index' = (player_col_index + 1) % NumCols
         ELSE UNCHANGED << player_row_index, player_col_index >>
    /\ UNCHANGED << score, lives, pedestrians, game_over,
                    spawn_timer, next_spawn_delay, spawned, falls, exits,
                    credits >>

MoveDown ==
    /\ IF ~game_over
         THEN player_row_index' = (player_row_index + 1) % NumRows
         ELSE UNCHANGED player_row_index
    /\ UNCHANGED << score, lives, player_col_index, pedestrians, game_over,
                    spawn_timer, next_spawn_delay, spawned, falls, exits,
                    credits >>

\* The r key: reset_game() in the else branch of "if not game_over".
\* Variant: the key is handled in every state.
RestartAlways == TRUE

RestartAccepted == game_over

Restart ==
    /\ IF RestartAccepted
         THEN \E delay \in DelayChoices : reset_game(delay)
         ELSE UNCHANGED game

(* ---- game logic of one frame (lines 167-228) ---- *)
\* zone_left < ped_center_x < zone_right for column c
\* Variant: the bounds of the zone belong to it.
InZoneClosed(center, c) ==
    LET manhole_x == MANHOLE_CENTERS_X[c + 1]
        zone_left == manhole_x - MANHOLE_COLLISION_WIDTH \div 2
        zone_right == manhole_x + MANHOLE_COLLISION_WIDTH \div 2
    IN  zone_left <= center /\ center <= zone_right

InZone(center, c) ==
    LET manhole_x == MANHOLE_CENTERS_X[c + 1]
        zone_left == manhole_x - MANHOLE_COLLISION_WIDTH \div 2
        zone_right == manhole_x + MANHOLE_COLLISION_WIDTH \div 2
    IN  zone_left < center /\ center < zone_right

\* is_covered
\* Variant: the column is not compared.
IsCoveredAnyCol(ped_row, c) == ped_row = player_row_index

\* Variant: the row is not compared.
IsCoveredAnyRow(ped_row, c) == c = player_col_index

IsCovered(ped_row, c) ==
    ped_row = player_row_index /\ c = player_col_index

\* the scoring condition of a covered pass
\* Variant: the credited set is not consulted.
ScoresNowAgain(center, ped_row, c, scored) ==
    center >= MANHOLE_CENTERS_X[c + 1]

\* Variant: the center must be strictly past the slot's center.
ScoresNowStrict(center, ped_row, c, scored) ==
    center > MANHOLE_CENTERS_X[c + 1] /\ << ped_row, c >> \notin scored

ScoresNow(center, ped_row, c, scored) ==
    center >= MANHOLE_CENTERS_X[c + 1] /\ << ped_row, c >> \notin scored

\* The else branch: "lives -= 1 ... fell_in_hole = True; break".
\* Variant: a fall costs two lives.
FallTwice(acc) == [acc EXCEPT !.lives = @ - 2, !.fell = TRUE]

Fall(acc) == [acc EXCEPT !.lives = @ - 1, !.fell = TRUE]

\* The loop over the manhole columns for one pedestrian, from column c on.
\* acc = [score, lives, scored, fell]; a fall breaks out of the loop.
RECURSIVE CheckColumns(_, _, _, _)
CheckColumns(c, center, ped_row, acc) ==
    IF c >= NumCols THEN acc
    ELSE IF ~InZone(center, c) THEN CheckColumns(c + 1, center, ped_row, acc)
    ELSE IF IsCovered(ped_row, c)
      THEN IF ScoresNow(center, ped_row, c, acc.scored)
             THEN CheckColumns(c + 1, center, ped_row,
                     [acc EXCEPT !.score = @ + 1,
                                 !.scored = @ \cup { << ped_row, c >> }])
             ELSE CheckColumns(c + 1, center, ped_row, acc)
      ELSE Fall(acc)

\* "not fell_in_hole and ped_rect.left > SCREEN_WIDTH"
\* Variant: the right edge of the rect is tested.
OffScreenRightEdge(fell, x) == ~fell /\ Left(x) + PEDESTRIAN_WIDTH > SCREEN_WIDTH

OffScreen(fell, x) == ~fell /\ Left(x) > SCREEN_WIDTH

\* The body of "for i, ped_data in enumerate(pedestrians)" for index i
\* (1-based).  st = [peds, score, lives, remove, falls, exits, credits].
ProcessPed(i, st) ==
    LET ped == st.peds[i]
        x == MoveX(ped.x)
        r == CheckColumns(0, CenterX(x), ped.row,
                [ score |-> st.score, lives |-> st.lives,
                  scored |-> ped.scored_at_indices, fell |-> FALSE ])
        off == OffScreen(r.fell, x)
    IN  [ peds |-> [st.peds EXCEPT ![i] =
                       [ped EXCEPT !.x = x, !.scored_at_indices = r.scored]],
          score |-> IF off THEN r.score + OFFSCREEN_BONUS ELSE r.score,
          lives |-> r.lives,
          remove |-> IF r.fell THEN Append(st.remove, i)
                     ELSE IF off THEN Append(st.remove, i)
                     ELSE st.remove,
          falls |-> IF r.fell THEN st.falls + 1 ELSE st.falls,
          exits |-> IF off THEN st.exits + 1 ELSE st.exits,
          credits |-> st.credits
                        + Cardinality(r.scored \ ped.scored_at_indices) ]

\* Variant: the loop stops as soon as no life is left.
RECURSIVE ProcessWhileAlive(_, _)
ProcessWhileAlive(i, st) ==
    IF i > Len(st.peds) \/ st.lives <= 0 THEN st
    ELSE ProcessWhileAlive(i + 1, ProcessPed(i, st))

RECURSIVE ProcessAll(_, _)
ProcessAll(i, st) ==
    IF i > Len(st.peds) THEN st ELSE ProcessAll(i + 1, ProcessPed(i, st))

\* "for index in sorted(list(set(...)), reverse=True): del pedestrians[index]"
RECURSIVE Keep(_, _, _)
Keep(peds, marked, i) ==
    IF i > Len(peds) THEN << >>
    ELSE IF i \in marked THEN Keep(peds, marked, i + 1)
    ELSE << peds[i] >> \o Keep(peds, marked, i + 1)

\* Variant: the marked indices are deleted in ascending order, each deletion
\* shifting the pedestrians behind it.
RECURSIVE RemoveAscending(_, _)
RemoveAscending(peds, remove) ==
    IF remove = << >> THEN peds
    ELSE LET index == Head(remove)
         IN  RemoveAscending(
                IF index <= Len(peds)
                  THEN [ k \in 1 .. Len(peds) - 1 |->
                           IF k < index THEN peds[k] ELSE peds[k + 1] ]
                  ELSE peds,
                Tail(remove))

RemoveMarked(peds, remove) ==
    Keep(peds, { remove[k] : k \in 1 .. Len(remove) }, 1)

\* "if lives <= 0: game_over = True"
\* Variant: strict comparison.
GameOverCheckStrict(l) == l < 0

GameOverCheck(l) == l <= 0

\* spawn_timer >= next_spawn_delay, after the increment
\* Variant: strict comparison, the spawn comes one frame late.
SpawnDueLate(timer) == timer > next_spawn_delay

SpawnDue(timer) == timer >= next_spawn_delay

\* The frame's game logic once the spawn decision is taken: peds0 is the
\* list after the spawn step, timer and delay the spawn timer and delay.
Simulate(peds0, timer, delay, count) ==
    LET st == ProcessAll(1, [ peds |-> peds0, score |-> score,
                              lives |-> lives, remove |-> << >>,
                              falls |-> falls, exits |-> exits,
                              credits |-> credits ])
    IN  /\ falls' = st.falls
        /\ exits' = st.exits
        /\ credits' = st.credits
        /\ spawn_timer' = timer
        /\ next_spawn_delay' = delay
        /\ spawned' = count
        /\ pedestrians' = RemoveMarked(st.peds, st.remove)
        /\ score' = st.score
        /\ lives' = st.lives
        /\ game_over' = IF GameOverCheck(st.lives) THEN TRUE ELSE game_over
        /\ UNCHANGED << player_row_index, player_col_index >>

\* The game logic of a frame while not game_over.
RunningTick ==
    IF SpawnDue(spawn_timer + 1)
      THEN \E ped_row \in Rows, delay \in DelayChoices :
              Simulate(Append(pedestrians,
                              create_pedestrian(ped_row, spawned + 1)),
                       0, delay, spawned + 1)
      ELSE Simulate(pedestrians, spawn_timer + 1, next_spawn_delay, spawned)

\* Variant: the game logic runs whatever game_over is.
TickAlways == RunningTick

\* "if not game_over:" around the game logic
Tick == IF game_over THEN UNCHANGED game ELSE RunningTick

(* ---- specifications ---- *)
\* The bound on a session's spawns.
Bounded == spawned' <= MaxSpawns

Next ==
    \/ MoveLeft /\ UNCHANGED last
    \/ MoveRight /\ UNCHANGED last
    \/ MoveUp /\ UNCHANGED last
    \/ MoveDown /\ UNCHANGED last
    \/ Restart /\ UNCHANGED last
    \/ Tick /\ Bounded /\ UNCHANGED last

Spec == Init /\ [][Next]_vars

\* The same steps, with the input recorded and the bounds of SpecKeys.
Logged(key) ==
    /\ last' = [ key |-> key, over |-> game_over ]
    /\ spawned' <= KeysMaxSpawns
    /\ spawned' > spawned => next_spawn_delay' \in KeysDelays

NextKeys ==
    \/ MoveLeft /\ Logged("move")
    \/ MoveRight /\ Logged("move")
    \/ MoveUp /\ Logged("move")
    \/ MoveDown /\ Logged("move")
    \/ Restart /\ Logged("restart")
    \/ Tick /\ Logged("tick")

SpecKeys == Init /\ [][NextKeys]_vars

\* The same steps for sessions of up to PacedMaxSpawns pedestrians that follow
\* each other at the distance of the two manhole columns, so that two of them
\* can be in the two zones in the same frame.
ColumnGap == MANHOLE_CENTERS_X[2] - MANHOLE_CENTERS_X[1]

Paced ==
    /\ spawned' <= PacedMaxSpawns
    /\ spawned' > spawned => next_spawn_delay' = ColumnGap
    /\ UNCHANGED last

NextPaced ==
    \/ MoveLeft /\ Paced
    \/ MoveRight /\ Paced
    \/ MoveUp /\ Paced
    \/ MoveDown /\ Paced
    \/ Restart /\ Paced
    \/ Tick /\ Paced

SpecPaced == Init /\ [][NextPaced]_vars

\* The same steps with the key recorded by name and, for a direction key,
\* with the slot the player was on when it was pressed.
Directions == { "left", "right", "up", "down" }

Pressed(key) ==
    /\ last' = IF key \in Directions
                 THEN [ key |-> key, over |-> game_over,
                        row |-> player_row_index, col |-> player_col_index ]
                 ELSE [ key |-> key, over |-> game_over ]
    /\ spawned' <= MovesMaxSpawns
    /\ spawned' > spawned => next_spawn_delay' \in KeysDelays

NextMoves ==
    \/ MoveLeft /\ Pressed("left")
    \/ MoveRight /\ Pressed("right")
    \/ MoveUp /\ Pressed("up")
    \/ MoveDown /\ Pressed("down")
    \/ Restart /\ Pressed("restart")
    \/ Tick /\ Pressed("tick")

SpecMoves == Init /\ [][NextMoves]_vars

\* What a frame of a running game does to the spawn timer (lines 169-173),
\* as long as the session has not had its cap spawns.  Every such frame, and
\* no other step, changes the timer in this way.  The main loop runs the
\* game logic once per iteration and clock.tick(60) only paces it, so
\* frames keep coming: weak fairness of this action.
FrameClock(cap) ==
    /\ ~game_over
    /\ ~(spawned = cap /\ SpawnDue(spawn_timer + 1))
    /\ spawn_timer' = IF SpawnDue(spawn_timer + 1) THEN 0 ELSE spawn_timer + 1

\* The sessions of a player who never presses a direction key.
Idle ==
    /\ spawned' <= IdleMaxSpawns
    /\ UNCHANGED last

NextIdle ==
    \/ Restart /\ Idle
    \/ Tick /\ Idle

SpecIdle ==
    Init /\ [][NextIdle]_vars /\ WF_spawn_timer(FrameClock(IdleMaxSpawns))

\* Sessions of up to FairMaxSpawns pedestrians that follow each other at the
\* longest delay, with every key, under weak fairness of the frame.  The
\* first pedestrians of a session can cross the whole screen before the
\* session has had its FairMaxSpawns spawns.
Fair ==
    /\ spawned' <= FairMaxSpawns
    /\ spawned' > spawned => next_spawn_delay' = PEDESTRIAN_SPAWN_RATE_MAX
    /\ UNCHANGED last

NextFair ==
    \/ MoveLeft /\ Fair
    \/ MoveRight /\ Fair
    \/ MoveUp /\ Fair
    \/ MoveDown /\ Fair
    \/ Restart /\ Fair
    \/ Tick /\ Fair

SpecFair ==
    Init /\ [][NextFair]_vars /\ WF_spawn_timer(FrameClock(FairMaxSpawns))

TypeOK ==
    /\ score \in Nat
    /\ lives \in Int
    /\ player_row_index \in Rows
    /\ player_col_index \in Cols
    /\ game_over \in BOOLEAN
    /\ spawn_timer \in 0 .. PEDESTRIAN_SPAWN_RATE_MAX
    /\ next_spawn_delay \in DelayChoices

(***************************************************************************)
(* Vocabulary of the properties.  These are written from the words of the  *)
(* specification (zone, covered, entering, leaving the screen) and do not  *)
(* go through the operators of the collision loop above.                   *)
(***************************************************************************)
\* The variables a player sees: everything but the histories.
visible == << score, lives, player_row_index, player_col_index, pedestrians,
              game_over, spawn_timer, next_spawn_delay >>

\* A step that ran the game logic of a frame while Running (only that step
\* changes the spawn timer of a running game).
TickStep == ~game_over /\ spawn_timer' # spawn_timer

SlotCenter(c) == MANHOLE_CENTERS_X[c + 1]
ZoneLo(c) == SlotCenter(c) - MANHOLE_COLLISION_WIDTH \div 2
ZoneHi(c) == SlotCenter(c) + MANHOLE_COLLISION_WIDTH \div 2

\* The center of pedestrian p once this frame has advanced it.
NewCenter(p) == CenterX(MoveX(p.x))
InSlotZone(p, c) == ZoneLo(c) < NewCenter(p) /\ NewCenter(p) < ZoneHi(c)
\* p's center enters the zone of column c in this frame.
EntersZone(p, c) == CenterX(p.x) <= ZoneLo(c) /\ InSlotZone(p, c)
PlayerAt(r, c) == player_row_index = r /\ player_col_index = c

Ids(peds) == { peds[i].id : i \in DOMAIN peds }
PedById(peds, id) == CHOOSE q \in { peds[i] : i \in DOMAIN peds } : q.id = id

\* The pedestrians of the list that this frame finds in an uncovered zone.
Fallers ==
    { i \in DOMAIN pedestrians :
        \E c \in Cols : /\ InSlotZone(pedestrians[i], c)
                        /\ ~PlayerAt(pedestrians[i].row, c) }

\* The pedestrians of the list that this frame finds past the right boundary.
Exiters ==
    { i \in DOMAIN pedestrians : Left(MoveX(pedestrians[i].x)) > SCREEN_WIDTH }

\* The (pedestrian, column) pairs that earn the covered-pass point this frame.
Earned ==
    { ic \in (DOMAIN pedestrians) \X Cols :
        LET p == pedestrians[ic[1]]
            c == ic[2]
        IN  /\ PlayerAt(p.row, c)
            /\ InSlotZone(p, c)
            /\ NewCenter(p) >= SlotCenter(c)
            /\ << p.row, c >> \notin p.scored_at_indices }

(***************************************************************************)
(* C1.  While the state is GameOver nothing is simulated: a frame or a     *)
(* move command received in GameOver leaves score, lives, the pedestrian   *)
(* list, the player position, the spawn timer and delay and the state      *)
(* unchanged; only a Restart command changes anything.                     *)
(***************************************************************************)
C1_GameOverFrozen ==
    [][ (game_over /\ last'.key # "restart") => UNCHANGED visible ]_vars

\* A frame has been processed in GameOver with pedestrians still listed.
C1_Witness ==
    /\ game_over
    /\ last = [ key |-> "tick", over |-> TRUE ]
    /\ pedestrians # << >>

(***************************************************************************)
(* C2.  The state is GameOver exactly when lives <= 0; Running becomes     *)
(* GameOver only at the end of a frame's game logic that leaves            *)
(* lives <= 0, and GameOver becomes Running only by a Restart command.     *)
(***************************************************************************)
C2_Transitions ==
    /\ [](game_over <=> lives <= 0)
    /\ [][ /\ (~game_over /\ game_over') => (last'.key = "tick" /\ lives' <= 0)
           /\ (game_over /\ ~game_over') => last'.key = "restart" ]_vars

\* The frame that has just ended the game.
C2_Witness ==
    /\ game_over
    /\ lives <= 0
    /\ last = [ key |-> "tick", over |-> FALSE ]

(***************************************************************************)
(* C3.  In a Running frame every pedestrian whose center enters the zone   *)
(* of a slot of its row that the player does not occupy is gone from the   *)
(* list at the end of the frame, and lives drops by exactly one per        *)
(* pedestrian found in an uncovered zone; the lives lost never exceed the  *)
(* number of pedestrians that have left the list.                          *)
(***************************************************************************)
C3_UncoveredFall ==
    /\ [](INITIAL_LIVES - lives <= spawned - Len(pedestrians))
    /\ [][ TickStep =>
            /\ lives' = lives - Cardinality(Fallers)
            /\ \A i \in DOMAIN pedestrians : \A c \in Cols :
                 (/\ EntersZone(pedestrians[i], c)
                  /\ ~PlayerAt(pedestrians[i].row, c))
                 => (i \in Fallers /\ pedestrians[i].id \notin Ids(pedestrians'))
         ]_vars

\* Two pedestrians have fallen, each for one life.
C3_Witness == falls = 2 /\ lives = INITIAL_LIVES - 2 /\ ~game_over

(***************************************************************************)
(* C4.  The covered-pass point of a slot is awarded to a pedestrian at     *)
(* most once: in a Running frame a slot is added to a pedestrian's         *)
(* credited set, and one point to the score, exactly when the slot is      *)
(* covered, the pedestrian's center is in the zone at or past the slot's   *)
(* center and the slot is not yet credited; a credited slot stays          *)
(* credited; the credited set holds only slots of the pedestrian's own     *)
(* row, hence at most 2.                                                   *)
(***************************************************************************)
C4_CreditOnce ==
    /\ [](\A i \in DOMAIN pedestrians :
            /\ pedestrians[i].scored_at_indices
                 \subseteq { << pedestrians[i].row, c >> : c \in Cols }
            /\ Cardinality(pedestrians[i].scored_at_indices) <= 2)
    /\ [][ TickStep =>
            /\ score' = score + Cardinality(Earned)
                              + OFFSCREEN_BONUS * Cardinality(Exiters)
            /\ \A i \in DOMAIN pedestrians :
                 pedestrians[i].id \in Ids(pedestrians') =>
                   PedById(pedestrians', pedestrians[i].id).scored_at_indices
                     = pedestrians[i].scored_at_indices
                         \cup { << pedestrians[i].row, c >> :
                                  c \in { d \in Cols : << i, d >> \in Earned } }
            /\ \A ic \in Earned : pedestrians[ic[1]].id \in Ids(pedestrians')
         ]_vars

\* A pedestrian credited for both slots of its row, the player on the
\* second one: the frames that follow find a covered, credited slot.
C4_Witness ==
    \E i \in DOMAIN pedestrians :
        /\ Cardinality(pedestrians[i].scored_at_indices) = 2
        /\ CenterX(pedestrians[i].x) > SlotCenter(1) + 1
        /\ CenterX(pedestrians[i].x) < ZoneHi(1)

(***************************************************************************)
(* C5.  A pedestrian that passes the right boundary without having fallen  *)
(* is removed from the list in that frame and adds exactly 5 points, once; *)
(* a pedestrian that falls adds no bonus.                                  *)
(***************************************************************************)
C5_ExitBonus ==
    /\ [](exits + falls + Len(pedestrians) = spawned)
    /\ [][ TickStep =>
            /\ Exiters \cap Fallers = {}
            /\ \A i \in Exiters : pedestrians[i].id \notin Ids(pedestrians')
            /\ exits' = exits + Cardinality(Exiters)
            /\ score' - score - Cardinality(Earned)
                 = OFFSCREEN_BONUS * Cardinality(Exiters)
         ]_vars

\* A pedestrian has left the screen and one has fallen.
C5_Witness == exits >= 1 /\ falls >= 1 /\ score >= OFFSCREEN_BONUS

(***************************************************************************)
(* C6.  A Restart command handled in GameOver yields score 0, lives 3, the *)
(* player on slot (0,0), an empty pedestrian list, spawn timer 0, a delay  *)
(* in [MIN, MAX] and the state Running.                                    *)
(***************************************************************************)
C6_RestartResets ==
    [][ (game_over /\ last'.key = "restart") =>
            /\ score' = 0
            /\ lives' = INITIAL_LIVES
            /\ player_row_index' = 0
            /\ player_col_index' = 0
            /\ pedestrians' = << >>
            /\ spawn_timer' = 0
            /\ next_spawn_delay' \in
                 PEDESTRIAN_SPAWN_RATE_MIN .. PEDESTRIAN_SPAWN_RATE_MAX
            /\ ~game_over'
      ]_vars

\* The r key has just been handled in GameOver.
C6_Witness == last = [ key |-> "restart", over |-> TRUE ] /\ ~game_over

(***************************************************************************)
(* C7.  A Restart command received while Running leaves score, lives, the  *)
(* player position, the pedestrian list, the spawn timer and delay and the *)
(* state unchanged.                                                        *)
(***************************************************************************)
C7_RestartIgnoredRunning ==
    [][ (~game_over /\ last'.key = "restart") => UNCHANGED visible ]_vars

\* The r key has just been handled in a running game that has a score, a
\* lost life and a pedestrian on its way.
C7_Witness ==
    /\ last = [ key |-> "restart", over |-> FALSE ]
    /\ ~game_over
    /\ score > 0
    /\ lives < INITIAL_LIVES
    /\ pedestrians # << >>

(***************************************************************************)
(* C8.  The player's row index and column index are always in {0,1}.       *)
(***************************************************************************)
C8_PlayerInRange ==
    player_row_index \in {0, 1} /\ player_col_index \in {0, 1}

\* The player has moved on both axes, to slot (1,1), in a game in progress.
C8_Witness ==
    /\ player_row_index = 1
    /\ player_col_index = 1
    /\ pedestrians # << >>

(***************************************************************************)
(* C9.  lives is 3 minus the number of falls of the session; the state is  *)
(* GameOver exactly from the third fall on; and from GameOver no step but  *)
(* a restart changes score, pedestrians, spawn state or player position.   *)
(***************************************************************************)
C9_ThreeFalls ==
    /\ [](lives = INITIAL_LIVES - falls)
    /\ [](game_over <=> falls >= 3)
    /\ [][ (game_over /\ game_over') =>
             UNCHANGED << score, pedestrians, spawned, spawn_timer,
                          player_row_index, player_col_index >> ]_vars

\* The game has ended on its third fall and a frame has passed since, with
\* a pedestrian still on its way.
C9_Witness ==
    /\ game_over
    /\ falls = 3
    /\ lives = 0
    /\ pedestrians # << >>
    /\ last = [ key |-> "tick", over |-> TRUE ]

(***************************************************************************)
(* C10.  With the player on slot (0,0), a pedestrian of row 0 whose center *)
(* is in the zone of the leftmost slot stays in the list, costs no life    *)
(* and moves on; in the frame in which its center reaches the slot's       *)
(* center its credited set gains exactly that slot and the score one       *)
(* point for it.                                                           *)
(***************************************************************************)
C10_CoveredPass ==
    [][ (TickStep /\ PlayerAt(0, 0)) =>
          \A i \in DOMAIN pedestrians :
            LET p == pedestrians[i] IN
            (p.row = 0 /\ InSlotZone(p, 0)) =>
              /\ i \notin Fallers
              /\ p.id \in Ids(pedestrians')
              /\ PedById(pedestrians', p.id).x = MoveX(p.x)
              /\ lives' = lives - Cardinality(Fallers \ {i})
              /\ (CenterX(p.x) < SlotCenter(0) /\ NewCenter(p) >= SlotCenter(0))
                   => /\ p.scored_at_indices = {}
                      /\ PedById(pedestrians', p.id).scored_at_indices
                           = { << 0, 0 >> }
                      /\ score' = score + 1 + Cardinality(Earned \ { << i, 0 >> })
                                    + OFFSCREEN_BONUS * Cardinality(Exiters)
      ]_vars

\* A pedestrian of row 0, credited for slot (0,0) only, walks between the
\* two zones.
C10_Witness ==
    \E i \in DOMAIN pedestrians :
        /\ pedestrians[i].row = 0
        /\ pedestrians[i].scored_at_indices = { << 0, 0 >> }
        /\ CenterX(pedestrians[i].x) >= ZoneHi(0)
        /\ CenterX(pedestrians[i].x) <= ZoneLo(1)

(***************************************************************************)
(* C11.  While Running a pedestrian is created only in the frame in which  *)
(* the spawn countdown elapses, one per frame at most: it is appended with *)
(* an empty credited set, a row in {0,1} and its rect wholly left of the   *)
(* screen (it is then advanced like the others in that same frame).  The   *)
(* timer restarts from 0 with a delay in [MIN, MAX]; as the timer counts   *)
(* the Running frames since the last spawn and never reaches the delay     *)
(* between frames, consecutive spawns are MIN to MAX frames apart.         *)
(***************************************************************************)
SpawnX == 0 - PEDESTRIAN_WIDTH

C11_Spawn ==
    /\ [](/\ 0 <= spawn_timer
          /\ spawn_timer < next_spawn_delay
          /\ PEDESTRIAN_SPAWN_RATE_MIN <= next_spawn_delay
          /\ next_spawn_delay <= PEDESTRIAN_SPAWN_RATE_MAX)
    /\ [][ IF TickStep /\ spawn_timer + 1 = next_spawn_delay
             THEN /\ spawned' = spawned + 1
                  /\ spawn_timer' = 0
                  /\ PEDESTRIAN_SPAWN_RATE_MIN <= next_spawn_delay'
                  /\ next_spawn_delay' <= PEDESTRIAN_SPAWN_RATE_MAX
                  /\ Ids(pedestrians') \ Ids(pedestrians) = { spawned + 1 }
                  /\ LET q == pedestrians'[Len(pedestrians')]
                     IN  /\ q.id = spawned + 1
                         /\ q.row \in {0, 1}
                         /\ q.scored_at_indices = {}
                         /\ SpawnX + PEDESTRIAN_WIDTH <= 0
                         /\ q.x = MoveX(SpawnX)
           ELSE /\ Ids(pedestrians') \subseteq Ids(pedestrians)
                /\ spawned' = spawned \/ (game_over /\ spawned' = 0)
                /\ TickStep => /\ spawn_timer' = spawn_timer + 1
                               /\ next_spawn_delay' = next_spawn_delay
      ]_vars

\* The second pedestrian of a session has just been created, MAX frames
\* after the first, which is still walking.
C11_Witness ==
    /\ spawned = 2
    /\ spawn_timer = 0
    /\ Len(pedestrians) = 2
    /\ pedestrians[2].x = MoveX(SpawnX)
    /\ pedestrians[1].x = PEDESTRIAN_SPAWN_RATE_MAX - 9

(***************************************************************************)
(* C12.  A pedestrian that a frame found in a slot's zone without falling  *)
(* is safe from that slot.                                                 *)
(***************************************************************************)
\* p was in the zone of column c when the previous frame checked it (and is
\* still listed, so it did not fall then).
WasInSlotZone(p, c) == ZoneLo(c) < CenterX(p.x) /\ CenterX(p.x) < ZoneHi(c)

\* As claimed: whatever the player did since, the pedestrian does not fall
\* at that slot and walks on.
C12_NeverFallsThere ==
    [][ TickStep =>
          \A i \in DOMAIN pedestrians : \A c \in Cols :
            LET p == pedestrians[i] IN
            (WasInSlotZone(p, c) /\ InSlotZone(p, c)) =>
               /\ p.id \in Ids(pedestrians')
               /\ PedById(pedestrians', p.id).x = MoveX(p.x)
      ]_vars

\* C12, amended.  The slot is tested again in every frame that finds the
\* pedestrian in the zone: it survives such a frame exactly if the player
\* is on the slot in that frame, and falls otherwise, credited or not.  Once
\* its center has left the zone that slot cannot take it any more.
C12_SafeWhileCovered ==
    [][ TickStep =>
          \A i \in DOMAIN pedestrians : \A c \in Cols :
            LET p == pedestrians[i] IN
            WasInSlotZone(p, c) =>
               IF InSlotZone(p, c)
                 THEN /\ PlayerAt(p.row, c) <=> p.id \in Ids(pedestrians')
                      /\ PlayerAt(p.row, c) <=> i \notin Fallers
                      /\ PlayerAt(p.row, c) =>
                           PedById(pedestrians', p.id).x = MoveX(p.x)
                      /\ ~PlayerAt(p.row, c) =>
                           /\ lives' < lives
                           /\ falls' > falls
                 ELSE /\ NewCenter(p) >= ZoneHi(c)
                      /\ p.id \in Ids(pedestrians')
                      /\ PedById(pedestrians', p.id).x = MoveX(p.x)
      ]_vars

\* The only pedestrian so far was credited for the left slot and then fell
\* into it: it is gone before it could have reached the right slot.
C12_Witness ==
    /\ spawned = 1
    /\ falls = 1
    /\ score = 1
    /\ exits = 0
    /\ pedestrians = << >>
    /\ spawn_timer < SlotCenter(1) - MANHOLE_COLLISION_WIDTH

(***************************************************************************)
(* C13.  lives at the frame boundaries.                                    *)
(***************************************************************************)
\* As claimed: lives is always one of 0..3.
C13_LivesInRange == lives \in 0 .. INITIAL_LIVES

\* C13, amended.  lives never exceeds 3 and is at least 1 while Running; a
\* frame in which two pedestrians fall, one in each column's zone, takes
\* two lives, so the frame that ends the game can leave lives at -1, and
\* no lower.
C13_LivesAtLeastMinusOne ==
    /\ lives \in -1 .. INITIAL_LIVES
    /\ ~game_over => lives >= 1
    /\ lives = INITIAL_LIVES - falls

\* The game has ended on a frame in which two pedestrians fell.
C13_Witness == game_over /\ lives = -1 /\ falls = 4

(***************************************************************************)
(* C14.  A pedestrian that leaves by the right has been credited for both  *)
(* slots of its row, so it is worth 1 + 1 + 5 points; in every state of a  *)
(* session score = credits granted + 5 * exits; and the score of a session *)
(* never decreases.                                                        *)
(***************************************************************************)
\* The slots of p's row whose center p has reached.
SlotsReached(p) == { << p.row, c >> : c \in { d \in Cols : CenterX(p.x) >= SlotCenter(d) } }

C14_ScoreAccount ==
    /\ [](/\ score = credits + OFFSCREEN_BONUS * exits
          /\ credits >= 2 * exits
          /\ \A i \in DOMAIN pedestrians :
                pedestrians[i].scored_at_indices = SlotsReached(pedestrians[i]))
    /\ [][ /\ TickStep =>
              \A i \in Exiters :
                 /\ pedestrians[i].scored_at_indices
                      = { << pedestrians[i].row, c >> : c \in Cols }
                 /\ Cardinality(pedestrians[i].scored_at_indices) = 2
           /\ score' >= score \/ (game_over /\ score' = 0)
      ]_vars

\* The first pedestrian of a session has crossed, for 7 points; the second,
\* a column behind it, fell into the left slot while the player covered the
\* right one.
C14_Witness ==
    /\ exits = 1
    /\ credits = 2
    /\ falls = 1
    /\ score = 2 + OFFSCREEN_BONUS

(***************************************************************************)
(* C15.  The frame that gives the off-screen bonus and removes the         *)
(* pedestrian.  Pedestrians walk to the right: the leading edge of the     *)
(* rect is its right edge, the trailing edge its left edge.                *)
(***************************************************************************)
LeadingEdge(x) == x + PEDESTRIAN_WIDTH
TrailingEdge(x) == x

\* As claimed: a pedestrian that does not fall is removed in the frame
\* that finds its leading edge past the right boundary.
C15_LeadingEdge ==
    [][ TickStep =>
          \A i \in DOMAIN pedestrians :
            (i \notin Fallers
               /\ LeadingEdge(MoveX(pedestrians[i].x)) > SCREEN_WIDTH)
              => pedestrians[i].id \notin Ids(pedestrians')
      ]_vars

\* The pedestrians this frame finds with the trailing edge past the boundary.
Gone == { i \in DOMAIN pedestrians :
            TrailingEdge(MoveX(pedestrians[i].x)) > SCREEN_WIDTH }

\* C15, amended.  The bonus and the removal come in the frame that finds
\* the trailing edge past the right boundary, PEDESTRIAN_WIDTH frames after
\* the leading edge passed it; until then the pedestrian stays listed and
\* earns nothing for leaving.
C15_TrailingEdge ==
    /\ [](\A i \in DOMAIN pedestrians :
              TrailingEdge(pedestrians[i].x) <= SCREEN_WIDTH)
    /\ [][ TickStep =>
             /\ \A i \in DOMAIN pedestrians :
                  i \notin Fallers =>
                    /\ i \in Gone <=> pedestrians[i].id \notin Ids(pedestrians')
                    /\ (i \notin Gone
                          /\ LeadingEdge(MoveX(pedestrians[i].x)) > SCREEN_WIDTH)
                         => PedById(pedestrians', pedestrians[i].id).x
                              = MoveX(pedestrians[i].x)
             /\ Gone \cap Fallers = {}
             /\ exits' = exits + Cardinality(Gone)
             /\ score' = score + Cardinality(Earned)
                           + OFFSCREEN_BONUS * Cardinality(Gone)
      ]_vars

\* A pedestrian whose rect is wholly past the last pixel column of the
\* screen is still listed, and no bonus has been given yet.
C15_Witness ==
    /\ exits = 0
    /\ \E i \in DOMAIN pedestrians :
          /\ LeadingEdge(pedestrians[i].x) > SCREEN_WIDTH
          /\ TrailingEdge(pedestrians[i].x) = SCREEN_WIDTH

(***************************************************************************)
(* C16.  The deletion at the end of a Running frame removes exactly the    *)
(* pedestrians the frame marked, fallen or off screen: each is marked and  *)
(* counted once, a faller gets no off-screen bonus, and the deletion       *)
(* leaves the others in the list, in their order, with the row and the     *)
(* credited set the pedestrian loop left them.                             *)
(***************************************************************************)
\* Pedestrian i of the list as this frame's pedestrian loop leaves it.
AfterLoop(i) ==
    [ pedestrians[i] EXCEPT
        !.x = MoveX(@),
        !.scored_at_indices =
            @ \cup { << pedestrians[i].row, c >> :
                       c \in { d \in Cols : << i, d >> \in Earned } } ]

C16_RemovalExact ==
    [][ TickStep =>
          LET Marked == Fallers \cup Exiters
              Unmarked == (DOMAIN pedestrians) \ Marked
              born == spawned' - spawned
          IN  /\ Fallers \cap Exiters = {}
              /\ falls' = falls + Cardinality(Fallers)
              /\ exits' = exits + Cardinality(Exiters)
              /\ lives' = lives - Cardinality(Fallers)
              /\ score' = score + Cardinality(Earned)
                            + OFFSCREEN_BONUS * Cardinality(Exiters)
              /\ born \in {0, 1}
              /\ Len(pedestrians') = Cardinality(Unmarked) + born
              /\ \A i \in Marked : pedestrians[i].id \notin Ids(pedestrians')
              /\ \A i \in Unmarked :
                    pedestrians'[Cardinality({ j \in Unmarked : j <= i })]
                      = AfterLoop(i)
              /\ born = 1 =>
                    pedestrians'[Len(pedestrians')].id = spawned + 1
      ]_vars

\* The second of three pedestrians has been deleted: the first and the
\* third are listed, in that order.
C16_Witness ==
    /\ Len(pedestrians) = 2
    /\ pedestrians[1].id = 1
    /\ pedestrians[2].id = 3

(***************************************************************************)
(* C17.  The order within a frame: the commands first, then every          *)
(* pedestrian is advanced and, once advanced, tested against the player's  *)
(* position as the commands left it, then the marked ones are deleted, and *)
(* only then is lives compared with 0.  So the frame that takes the last   *)
(* life still advances, credits, rewards and deletes every pedestrian of   *)
(* the list, and the position the player has when the frame's game logic   *)
(* runs is the one that decides who is covered.                            *)
(***************************************************************************)
C17_FrameOrder ==
    [][ TickStep =>
          /\ lives' = lives - Cardinality(Fallers)
          /\ falls' = falls + Cardinality(Fallers)
          /\ score' = score + Cardinality(Earned)
                        + OFFSCREEN_BONUS * Cardinality(Exiters)
          /\ \A i \in DOMAIN pedestrians :
                IF i \in Fallers \cup Exiters
                  THEN pedestrians[i].id \notin Ids(pedestrians')
                  ELSE /\ pedestrians[i].id \in Ids(pedestrians')
                       /\ PedById(pedestrians', pedestrians[i].id) = AfterLoop(i)
          /\ game_over' = (lives' <= 0)
          /\ UNCHANGED << player_row_index, player_col_index >>
      ]_vars

\* The game is over and the youngest pedestrian, behind the one whose fall
\* took the last life, is where a pedestrian advanced in every frame since
\* its creation is.
C17_Witness ==
    /\ game_over
    /\ lives = 0
    /\ pedestrians # << >>
    /\ pedestrians[Len(pedestrians)].id = spawned
    /\ spawn_timer > PEDESTRIAN_WIDTH
    /\ pedestrians[Len(pedestrians)].x = spawn_timer - (PEDESTRIAN_WIDTH \div 2 - 1)

(***************************************************************************)
(* C18.  A direction key pressed in Running steps its own axis only: left  *)
(* and right the column index by -1 and +1 modulo 2, up and down the row   *)
(* index by -1 and +1 modulo 2, the other index, score, lives, the list    *)
(* and the spawn timer and delay staying as they are.  With two rows and   *)
(* two columns both directions of an axis lead to the other slot of the    *)
(* axis, and the same key pressed twice in a row leads back.               *)
(***************************************************************************)
C18_MoveAxis ==
    [][ (~game_over /\ last'.key \in Directions) =>
          /\ last'.key = "left" =>
                player_col_index' = (player_col_index - 1) % 2
          /\ last'.key = "right" =>
                player_col_index' = (player_col_index + 1) % 2
          /\ last'.key = "up" =>
                player_row_index' = (player_row_index - 1) % 2
          /\ last'.key = "down" =>
                player_row_index' = (player_row_index + 1) % 2
          /\ last'.key \in { "left", "right" } =>
                /\ player_col_index' = 1 - player_col_index
                /\ player_row_index' = player_row_index
          /\ last'.key \in { "up", "down" } =>
                /\ player_row_index' = 1 - player_row_index
                /\ player_col_index' = player_col_index
          /\ UNCHANGED << score, lives, pedestrians, game_over, spawn_timer,
                          next_spawn_delay >>
          /\ (last.key = last'.key /\ ~last.over) =>
                /\ player_row_index' = last.row
                /\ player_col_index' = last.col
      ]_vars

\* The up key, pressed on the top row with a pedestrian on its way, has
\* taken the player to the bottom row.
C18_Witness ==
    /\ ~game_over
    /\ last.key = "up"
    /\ last.row = 0
    /\ player_row_index = 1
    /\ player_col_index = 0
    /\ pedestrians # << >>

(***************************************************************************)
(* C19.  In the sessions of a player who presses no direction key no       *)
(* pedestrian ever reaches the right boundary: the player stays on slot    *)
(* (0,0), every pedestrian meets an uncovered slot of its row (the left    *)
(* one on row 1, the right one on row 0) and falls there; and as frames    *)
(* keep coming a Running game always ends in GameOver.                     *)
(***************************************************************************)
C19_IdleEndsGame ==
    /\ [](/\ PlayerAt(0, 0)
          /\ exits = 0
          /\ falls = spawned - Len(pedestrians)
          /\ \A i \in DOMAIN pedestrians :
                /\ LeadingEdge(pedestrians[i].x) < SCREEN_WIDTH
                /\ pedestrians[i].row = 1 => CenterX(pedestrians[i].x) <= ZoneLo(0)
                /\ pedestrians[i].row = 0 => CenterX(pedestrians[i].x) <= ZoneLo(1))
    /\ (~game_over ~> game_over)

\* An idle session has ended; one of its pedestrians was credited for the
\* covered slot (0,0) before it fell into the right slot.
C19_Witness ==
    /\ game_over
    /\ PlayerAt(0, 0)
    /\ falls = 3
    /\ exits = 0
    /\ score = 1

(***************************************************************************)
(* C20.  No pedestrian stays in the list for ever while the game runs:     *)
(* every Running frame moves each listed pedestrian to the right, and one  *)
(* that has not fallen is deleted in the frame that takes it past the      *)
(* right boundary; so, as frames keep coming, a listed pedestrian leaves   *)
(* the list, by a fall or by the right, unless the game is over first.     *)
(* The leads-to part is stated for the pedestrians of a session that have  *)
(* the time to cross before the session's last spawn: all but the last two.*)
(***************************************************************************)
C20_EveryoneLeaves ==
    /\ [](\A i \in DOMAIN pedestrians :
              TrailingEdge(pedestrians[i].x) <= SCREEN_WIDTH)
    /\ [][ TickStep =>
             \A i \in DOMAIN pedestrians :
               pedestrians[i].id \in Ids(pedestrians') =>
                 PedById(pedestrians', pedestrians[i].id).x > pedestrians[i].x
       ]_vars
    /\ \A id \in 1 .. FairMaxSpawns - 2 :
          [](id \in Ids(pedestrians)
               => <>(id \notin Ids(pedestrians) \/ game_over))

\* Of the three pedestrians of a running session the first has left by the
\* right and the second by a fall; the third is on its way.
C20_Witness ==
    /\ ~game_over
    /\ exits = 1
    /\ falls = 1
    /\ Len(pedestrians) = 1
    /\ pedestrians[1].id = 3

====
